---- MODULE Spec2Model ----
(***************************************************************************)
(* Model of lazy-minting/lib/LazyMinter.js: the LazyMinter class, its      *)
(* lazily cached EIP-712 signing domain, and the asynchronous createVoucher*)
(* operation with its two suspension points (signer.getChainId and         *)
(* signer.signMessage).  Hashes are modelled as injective constructors     *)
(* over the exact byte layout the libraries hash.                          *)
(***************************************************************************)
EXTENDS Integers, Sequences, FiniteSets, TLC

\* ------------------------------------------------------------------ bounds
\* number of createVoucher invocations followed (call ids 1..MaxCalls)
MaxCalls == 2

\* ------------------------------------------------------------------ values
\* JavaScript values that can be passed for tokenId / minPrice
Num(n) == [kind |-> "number", int |-> n, frac |-> FALSE]
\* a non-integer number: int + 0.5
Frac(n) == [kind |-> "number", int |-> n, frac |-> TRUE]
undefined == [kind |-> "undefined", int |-> 0, frac |-> FALSE]
\* the absent value of an instance field or of a local not yet assigned
null == [kind |-> "null"]

SIGNING_DOMAIN_NAME == "LazyNFT-Voucher"
SIGNING_DOMAIN_VERSION == "1"

Instances == {"m1", "m2"}
Addresses == {"0xA11CE", "0xB0B"}
Signers == {"signer"}
ChainIds == {Num(1), Num(5)}
CallIds == 1..MaxCalls

\* the type schema assigned to this.types by the constructor
Types ==
  [ EIP712Domain |-> << [name |-> "name", type |-> "string"],
                        [name |-> "version", type |-> "string"],
                        [name |-> "chainId", type |-> "uint256"],
                        [name |-> "verifyingContract", type |-> "address"] >>,
    NFTVoucher   |-> << [name |-> "tokenId", type |-> "uint256"],
                        [name |-> "minPrice", type |-> "uint256"],
                        [name |-> "uri", type |-> "string"] >> ]

\* the argument tuples createVoucher is invoked with
Inputs ==
  { [tokenId |-> Num(42),   uri |-> "ipfs://test", minPrice |-> Num(1000)],
    [tokenId |-> Num(1),    uri |-> "ipfs://abc",  minPrice |-> undefined],
    [tokenId |-> Num(1),    uri |-> "ipfs://abc",  minPrice |-> Num(0)],
    [tokenId |-> Num(0 - 1), uri |-> "ipfs://abc", minPrice |-> Num(0)],
    [tokenId |-> Frac(1),   uri |-> "ipfs://abc",  minPrice |-> Num(0)],
    [tokenId |-> undefined, uri |-> "ipfs://abc",  minPrice |-> Num(0)],
    [tokenId |-> Num(1),    uri |-> "ipfs://abc",  minPrice |-> Num(0 - 1)],
    [tokenId |-> Num(1),    uri |-> "ipfs://abc",  minPrice |-> Frac(1)] }

\* ------------------------------------------------------------------ hashing
\* byte strings are tagged pieces; keccak256 is an injective constructor
Utf8(s) == [utf8 |-> s]
Hex(h) == [hex |-> h]
Uint(n) == [uint256 |-> n]
Addr(a) == [address |-> a]
keccak256(pieces) == [keccak256 |-> pieces]

\* ethers' AbiCoder accepts a uint256 only if it is an integer in 0..2^256-1
IsUint256(v) == v.kind = "number" /\ ~v.frac /\ v.int >= 0

RECURSIVE JoinFields(_)
JoinFields(fields) ==
  IF fields = << >> THEN ""
  ELSE LET f == Head(fields)
           rest == Tail(fields)
       IN  f.type \o " " \o f.name \o
           (IF rest = << >> THEN "" ELSE "," \o JoinFields(rest))

\* the canonical type signature, e.g. "T(uint256 a,string b)"
encodeType(types, type) == type \o "(" \o JoinFields(types[type]) \o ")"

typeHash(types, type) == keccak256(<< Utf8(encodeType(types, type)) >>)

\* one field of a struct can be ABI-encoded
CanEncodeField(type, value) ==
  IF type = "uint256" THEN IsUint256(value) ELSE TRUE

\* the 32-byte word a field contributes
encodeField(type, value) ==
  IF type = "string" THEN keccak256(<< Utf8(value) >>)
  ELSE IF type = "uint256" THEN Uint(value.int)
  ELSE Addr(value)

CanEncodeData(types, type, data) ==
  /\ type \in DOMAIN types
  /\ \A k \in 1..Len(types[type]) :
       /\ types[type][k].name \in DOMAIN data
       /\ CanEncodeField(types[type][k].type, data[types[type][k].name])

encodeData(types, type, data) ==
  << typeHash(types, type) >> \o
  [ k \in 1..Len(types[type]) |->
      encodeField(types[type][k].type, data[types[type][k].name]) ]

structHash(types, type, data) == keccak256(encodeData(types, type, data))

\* TypedDataUtils.encodeDigest throws on these envelopes
CanEncodeDigest(typedData) ==
  /\ CanEncodeData(typedData.types, "EIP712Domain", typedData.domain)
  /\ CanEncodeData(typedData.types, typedData.primaryType, typedData.message)

\* TypedDataUtils.encodeDigest: keccak256(0x1901 || domainHash || messageHash)
encodeDigest(typedData) ==
  keccak256(<< Hex("0x1901"),
               structHash(typedData.types, "EIP712Domain", typedData.domain),
               structHash(typedData.types, typedData.primaryType,
                          typedData.message) >>)

\* ------------------------------------------------------------------ signer
\* signatures are modelled by what a verifier can recover from them: the key
\* that made them and the 32-byte hash they were made over
\* ethers' hashMessage: keccak256("\x19Ethereum Signed Message:\n" || len || msg)
hashMessage(message) ==
  keccak256(<< Utf8("\\x19Ethereum Signed Message:\\n"), Utf8("32"), message >>)

\* an ECDSA signature by the signer's key over a 32-byte hash
ecdsaSign(key, hash) == [by |-> key, over |-> hash]

\* ethers' Signer.signMessage: signs the EIP-191 personal-message hash
signMessage(key, message) == ecdsaSign(key, hashMessage(message))


\* ------------------------------------------------------------------ state
VARIABLES
  contractAddress,  \* this.contractAddress of each instance
  signer,           \* this.signer of each instance
  types,            \* this.types of each instance
  _domain,          \* this._domain of each instance (null until resolved)
  network,          \* the chain id the signer's provider is connected to
  calls             \* the createVoucher invocations, by call id

vars == << contractAddress, signer, types, _domain, network, calls >>

NoCall ==
  [ pc |-> "idle", inst |-> "m1", args |-> null, voucher |-> null,
    domain |-> null, typedData |-> null, digest |-> null, signed |-> null,
    chainId |-> null, queries |-> 0, signCalls |-> 0, wrote |-> FALSE,
    result |-> null, error |-> null ]

InFlight(c) == calls[c].pc \in {"awaitChainId", "awaitDomain", "awaitSign"}
Settled(c) == calls[c].pc \in {"done", "failed"}

\* variant of Init: the constructor resolves the domain eagerly
Init_EagerDomain ==
  /\ contractAddress \in [Instances -> Addresses]
  /\ contractAddress["m1"] = "0xA11CE"
  /\ signer \in [Instances -> Signers]
  /\ types = [i \in Instances |-> Types]
  /\ network = Num(1)
  /\ _domain = [i \in Instances |->
                  [ name |-> SIGNING_DOMAIN_NAME,
                    version |-> SIGNING_DOMAIN_VERSION,
                    verifyingContract |-> contractAddress[i],
                    chainId |-> network ] ]
  /\ calls = [c \in CallIds |-> NoCall]

\* constructor({ contractAddress, signer })
Init ==
  /\ contractAddress \in [Instances -> Addresses]
  /\ contractAddress["m1"] = "0xA11CE"
  /\ signer \in [Instances -> Signers]
  /\ types = [i \in Instances |-> Types]
  /\ _domain = [i \in Instances |-> null]
  /\ network = Num(1)
  /\ calls = [c \in CallIds |-> NoCall]

\* ------------------------------------------------------------------ errors
\* what signer.getChainId rejects with
ChainIdError == [error |-> "getChainId rejected"]
\* what signer.signMessage rejects with
SignError == [error |-> "signMessage rejected"]
\* what TypedDataUtils.encodeDigest throws on a value it cannot encode
EncodeError == [error |-> "invalid BigNumber value"]

\* ------------------------------------------------------------------ helpers
\* variant of DefaultParam: the default is never applied
DefaultParam_Ignored(arg, dflt) == arg

\* a default parameter applies when the argument is undefined
DefaultParam(arg, dflt) == IF arg = undefined THEN dflt ELSE arg

\* variant of MakeVoucher: tokenId and minPrice land in each other's field
MakeVoucher_SwappedPrice(in) ==
  [ tokenId |-> IF in.minPrice = undefined THEN Num(0) ELSE in.minPrice,
    uri |-> in.uri, minPrice |-> in.tokenId ]

\* const voucher = { tokenId, uri, minPrice }
MakeVoucher(in) ==
  [ tokenId |-> in.tokenId, uri |-> in.uri,
    minPrice |-> DefaultParam(in.minPrice, Num(0)) ]

\* variant of MakeDomain: the chain id is hard-coded instead of queried
MakeDomain_FixedChain(i, chainId) ==
  [ name |-> SIGNING_DOMAIN_NAME, version |-> SIGNING_DOMAIN_VERSION,
    verifyingContract |-> contractAddress[i], chainId |-> Num(1) ]

\* variant of MakeDomain: the domain is not tied to the instance's contract
MakeDomain_NoContract(i, chainId) ==
  [ name |-> SIGNING_DOMAIN_NAME, version |-> SIGNING_DOMAIN_VERSION,
    verifyingContract |-> "0x0", chainId |-> chainId ]

\* the object _signingDomain builds once the chain id is known
MakeDomain(i, chainId) ==
  [ name |-> SIGNING_DOMAIN_NAME, version |-> SIGNING_DOMAIN_VERSION,
    verifyingContract |-> contractAddress[i], chainId |-> chainId ]

\* variant of formatVoucher: the primary type is named as the spec names it
formatVoucher_WrongPrimary(i, domain, voucher) ==
  [ domain |-> domain, types |-> types[i], primaryType |-> "Voucher",
    message |-> voucher ]

\* the object _formatVoucher returns
formatVoucher(i, domain, voucher) ==
  [ domain |-> domain, types |-> types[i], primaryType |-> "NFTVoucher",
    message |-> voucher ]

\* ------------------------------------------------------------------ actions
\* variant of Call: _signingDomain without the cache test, querying every time
Call_NoCache(c, i, in) ==
  /\ calls[c].pc = "idle"
  /\ \A d \in CallIds : d < c => calls[d].pc # "idle"
  /\ calls' = [ calls EXCEPT ![c] =
       [ [ pc |-> "idle", inst |-> "m1", args |-> null, voucher |-> null,
           domain |-> null, typedData |-> null, digest |-> null,
           signed |-> null, chainId |-> null, queries |-> 0,
           signCalls |-> 0, wrote |-> FALSE, result |-> null, error |-> null ]
         EXCEPT !.inst = i, !.args = in, !.voucher = MakeVoucher(in),
                !.pc = "awaitChainId", !.queries = 1 ] ]
  /\ UNCHANGED << contractAddress, signer, types, _domain, network >>

\* variant of Call: the cached branch hands back a domain that lost its
\* verifying contract
Call_StaleDomain(c, i, in) ==
  /\ calls[c].pc = "idle"
  /\ \A d \in CallIds : d < c => calls[d].pc # "idle"
  /\ LET started == [ [ pc |-> "idle", inst |-> "m1", args |-> null,
                        voucher |-> null, domain |-> null, typedData |-> null,
                        digest |-> null, signed |-> null, chainId |-> null,
                        queries |-> 0, signCalls |-> 0, wrote |-> FALSE,
                        result |-> null, error |-> null ]
                      EXCEPT !.inst = i, !.args = in,
                             !.voucher = MakeVoucher(in) ]
     IN  calls' = [ calls EXCEPT ![c] =
           IF _domain[i] # null
           THEN [ started EXCEPT !.pc = "awaitDomain",
                    !.domain = [ _domain[i] EXCEPT !.verifyingContract = "0x0" ] ]
           ELSE [ started EXCEPT !.pc = "awaitChainId", !.queries = 1 ] ]
  /\ UNCHANGED << contractAddress, signer, types, _domain, network >>

\* createVoucher(tokenId, uri, minPrice) is invoked on instance i: the
\* synchronous part runs up to the first suspension inside _signingDomain.
Call(c, i, in) ==
  /\ calls[c].pc = "idle"
  /\ \A d \in CallIds : d < c => calls[d].pc # "idle"
  /\ LET started == [ NoCall EXCEPT !.inst = i, !.args = in,
                                     !.voucher = MakeVoucher(in) ]
     IN  calls' = [ calls EXCEPT ![c] =
           IF _domain[i] # null
           THEN [ started EXCEPT !.pc = "awaitDomain", !.domain = _domain[i] ]
           ELSE [ started EXCEPT !.pc = "awaitChainId", !.queries = 1 ] ]
  /\ UNCHANGED << contractAddress, signer, types, _domain, network >>

\* variant of ChainIdReturns: the domain is built and returned but never
\* assigned to this._domain
ChainIdReturns_NoStore(c) ==
  /\ calls[c].pc = "awaitChainId"
  /\ calls' = [ calls EXCEPT ![c].pc = "awaitDomain",
                             ![c].domain = MakeDomain(calls[c].inst, network),
                             ![c].chainId = network ]
  /\ UNCHANGED << contractAddress, signer, types, _domain, network >>

\* variant of ChainIdReturns: the call is handed a rebuilt object that lacks
\* the domain name instead of the object just stored in this._domain
ChainIdReturns_FreshObject(c) ==
  /\ calls[c].pc = "awaitChainId"
  /\ LET i == calls[c].inst
         d == MakeDomain(i, network)
     IN  /\ _domain' = [ _domain EXCEPT ![i] = d ]
         /\ calls' = [ calls EXCEPT ![c].pc = "awaitDomain",
                                    ![c].domain = [ d EXCEPT !.name = "" ],
                                    ![c].chainId = network,
                                    ![c].wrote = TRUE ]
  /\ UNCHANGED << contractAddress, signer, types, network >>

\* signer.getChainId() resolves: _signingDomain stores and returns the domain
ChainIdReturns(c) ==
  /\ calls[c].pc = "awaitChainId"
  /\ LET i == calls[c].inst
         d == MakeDomain(i, network)
     IN  /\ _domain' = [ _domain EXCEPT ![i] = d ]
         /\ calls' = [ calls EXCEPT ![c].pc = "awaitDomain", ![c].domain = d,
                                    ![c].chainId = network,
                                    ![c].wrote = TRUE ]
  /\ UNCHANGED << contractAddress, signer, types, network >>

\* variant of ChainIdFails: the domain object is stored before the chain id
\* is known, so a rejected query leaves a domain without chain id in the cache
ChainIdFails_CachesPartial(c) ==
  /\ calls[c].pc = "awaitChainId"
  /\ _domain' = [ _domain EXCEPT ![calls[c].inst] =
                   MakeDomain(calls[c].inst, undefined) ]
  /\ calls' = [ calls EXCEPT ![c].pc = "failed", ![c].error = ChainIdError ]
  /\ UNCHANGED << contractAddress, signer, types, network >>

\* signer.getChainId() rejects: the rejection propagates out of createVoucher
ChainIdFails(c) ==
  /\ calls[c].pc = "awaitChainId"
  /\ calls' = [ calls EXCEPT ![c].pc = "failed", ![c].error = ChainIdError ]
  /\ UNCHANGED << contractAddress, signer, types, _domain, network >>

\* variant of Digest: the digest is not checked before signMessage is invoked
Digest_SignsAnyway(c) ==
  /\ calls[c].pc = "awaitDomain"
  /\ LET typedData == formatVoucher(calls[c].inst, calls[c].domain,
                                    calls[c].voucher)
     IN  calls' = [ calls EXCEPT ![c] =
           [ @ EXCEPT !.pc = "awaitSign", !.typedData = typedData,
                      !.digest = encodeDigest(typedData),
                      !.signed = encodeDigest(typedData),
                      !.signCalls = @ + 1 ] ]
  /\ UNCHANGED << contractAddress, signer, types, _domain, network >>

\* variant of Digest: signMessage is invoked but not awaited, the result is
\* returned at once with the pending signature
Digest_ReturnsEarly(c) ==
  /\ calls[c].pc = "awaitDomain"
  /\ LET typedData == formatVoucher(calls[c].inst, calls[c].domain,
                                    calls[c].voucher)
     IN  calls' = [ calls EXCEPT ![c] =
           IF CanEncodeDigest(typedData)
           THEN [ @ EXCEPT !.pc = "done", !.typedData = typedData,
                           !.digest = encodeDigest(typedData),
                           !.signed = encodeDigest(typedData),
                           !.signCalls = @ + 1,
                           !.result = [ voucher |-> calls[c].voucher,
                                        signature |-> null,
                                        digest |-> encodeDigest(typedData) ] ]
           ELSE [ @ EXCEPT !.pc = "failed", !.typedData = typedData,
                           !.error = EncodeError ] ]
  /\ UNCHANGED << contractAddress, signer, types, _domain, network >>

\* createVoucher resumes with the typed data: encodeDigest, then signMessage
\* is invoked with the digest (or encodeDigest throws)
Digest(c) ==
  /\ calls[c].pc = "awaitDomain"
  /\ LET typedData == formatVoucher(calls[c].inst, calls[c].domain,
                                    calls[c].voucher)
     IN  calls' = [ calls EXCEPT ![c] =
           IF CanEncodeDigest(typedData)
           THEN [ @ EXCEPT !.pc = "awaitSign", !.typedData = typedData,
                           !.digest = encodeDigest(typedData),
                           !.signed = encodeDigest(typedData),
                           !.signCalls = @ + 1 ]
           ELSE [ @ EXCEPT !.pc = "failed", !.typedData = typedData,
                           !.error = EncodeError ] ]
  /\ UNCHANGED << contractAddress, signer, types, _domain, network >>

\* variant of SignReturns: the cached domain is dropped once a voucher is out
SignReturns_DropsCache(c) ==
  /\ calls[c].pc = "awaitSign"
  /\ calls' = [ calls EXCEPT ![c].pc = "done", ![c].result =
       [ voucher |-> calls[c].voucher,
         signature |-> signMessage(signer[calls[c].inst], calls[c].signed),
         digest |-> calls[c].digest ] ]
  /\ _domain' = [ _domain EXCEPT ![calls[c].inst] = null ]
  /\ UNCHANGED << contractAddress, signer, types, network >>

\* signer.signMessage(digest) resolves: createVoucher returns its result
SignReturns(c) ==
  /\ calls[c].pc = "awaitSign"
  /\ calls' = [ calls EXCEPT ![c].pc = "done", ![c].result =
       [ voucher |-> calls[c].voucher,
         signature |-> signMessage(signer[calls[c].inst], calls[c].signed),
         digest |-> calls[c].digest ] ]
  /\ UNCHANGED << contractAddress, signer, types, _domain, network >>

\* variant of SignFails: a rejected signMessage invalidates the cached domain
SignFails_ClearsCache(c) ==
  /\ calls[c].pc = "awaitSign"
  /\ calls' = [ calls EXCEPT ![c].pc = "failed", ![c].error = SignError ]
  /\ _domain' = [ _domain EXCEPT ![calls[c].inst] = null ]
  /\ UNCHANGED << contractAddress, signer, types, network >>

\* variant of SignFails: a rejected signMessage is invoked again
SignFails_Retry(c) ==
  /\ calls[c].pc = "awaitSign"
  /\ calls' = [ calls EXCEPT ![c].signCalls = @ + 1 ]
  /\ UNCHANGED << contractAddress, signer, types, _domain, network >>

\* signer.signMessage(digest) rejects: the rejection propagates
SignFails(c) ==
  /\ calls[c].pc = "awaitSign"
  /\ calls' = [ calls EXCEPT ![c].pc = "failed", ![c].error = SignError ]
  /\ UNCHANGED << contractAddress, signer, types, _domain, network >>

\* the signer's provider is now connected to another chain
SwitchNetwork ==
  /\ \E n \in ChainIds \ {network} : network' = n
  /\ UNCHANGED << contractAddress, signer, types, _domain, calls >>

Next ==
  \/ \E c \in CallIds, i \in Instances, in \in Inputs : Call(c, i, in)
  \/ \E c \in CallIds : ChainIdReturns(c)
  \/ \E c \in CallIds : ChainIdFails(c)
  \/ \E c \in CallIds : Digest(c)
  \/ \E c \in CallIds : SignReturns(c)
  \/ \E c \in CallIds : SignFails(c)

\* concurrent calls on a fixed network
Spec == Init /\ [][Next]_vars

\* createVoucher invoked only when no earlier call is still in flight
SeqCall(c, i, in) ==
  /\ \A d \in CallIds : ~InFlight(d)
  /\ Call(c, i, in)

SeqNext ==
  \/ \E c \in CallIds, i \in Instances, in \in Inputs : SeqCall(c, i, in)
  \/ \E c \in CallIds : ChainIdReturns(c)
  \/ \E c \in CallIds : ChainIdFails(c)
  \/ \E c \in CallIds : Digest(c)
  \/ \E c \in CallIds : SignReturns(c)
  \/ \E c \in CallIds : SignFails(c)
  \/ SwitchNetwork

\* calls issued one after another, on a network that may change
SeqSpec == Init /\ [][SeqNext]_vars

RaceNext ==
  \/ Next
  \/ SwitchNetwork

\* concurrent calls on a network that may change between two queries
RaceSpec == Init /\ [][RaceNext]_vars

\* ------------------------------------------------------------------ observers
Started(c) == calls[c].pc # "idle"
Done(c) == calls[c].pc = "done"
Failed(c) == calls[c].pc = "failed"

RECURSIVE QueriesUpTo(_, _)
QueriesUpTo(i, n) ==
  IF n = 0 THEN 0
  ELSE (IF Started(n) /\ calls[n].inst = i THEN calls[n].queries ELSE 0)
         + QueriesUpTo(i, n - 1)

RECURSIVE FailedQueriesUpTo(_, _)
FailedQueriesUpTo(i, n) ==
  IF n = 0 THEN 0
  ELSE (IF Failed(n) /\ calls[n].inst = i /\ calls[n].error = ChainIdError
        THEN 1 ELSE 0)
         + FailedQueriesUpTo(i, n - 1)

\* how many times signer.getChainId was invoked by calls on instance i
getChainIdCalls(i) == QueriesUpTo(i, MaxCalls)
\* how many of those invocations were rejected
getChainIdFailures(i) == FailedQueriesUpTo(i, MaxCalls)

\* how many getChainId invocations of calls on instance i resolved
getChainIdSuccesses(i) ==
  Cardinality({ c \in CallIds : /\ Started(c) /\ calls[c].inst = i
                                /\ calls[c].chainId # null })

\* the call on the same instance that follows call c, if any
NextCallOn(c, d) ==
  /\ d > c /\ Started(d) /\ calls[d].inst = calls[c].inst
  /\ \A e \in CallIds : (c < e /\ e < d /\ Started(e)) =>
                            calls[e].inst # calls[c].inst

\* the arguments cannot be encoded as uint256 once the default is applied
InvalidVoucher(c) ==
  \/ ~IsUint256(calls[c].voucher.tokenId)
  \/ ~IsUint256(calls[c].voucher.minPrice)

\* the arguments as the claim classifies them: negative, non-integer or missing
InvalidArgs(c) ==
  \/ ~IsUint256(calls[c].args.tokenId)
  \/ ~IsUint256(calls[c].args.minPrice)

\* ------------------------------------------------------------------ claims
\* C1: in every createVoucher call that returns, the bytes handed to the
\* signing capability are the returned digest and they are signed raw, so a
\* verifier that recomputes the EIP-712 digest accepts the signature as made
\* by the signer's key.
C1_RawDigestSigned ==
  \A c \in CallIds : Done(c) =>
    /\ calls[c].signed = calls[c].result.digest
    /\ calls[c].result.signature.over = calls[c].result.digest
    /\ calls[c].result.signature.by = signer[calls[c].inst]

\* C2 (as stated): with calls issued one after another, getChainId is invoked
\* at most once in total per instance.
C2_AtMostOneQuery ==
  \A i \in Instances : getChainIdCalls(i) <= 1

\* C2 (amended): with calls issued one after another, getChainId is invoked
\* at most once more than the number of its rejected invocations, and every
\* call that follows a call whose query resolved issues no query and uses the
\* domain that call cached.
C2_OneQueryPerResolution ==
  /\ \A i \in Instances : getChainIdCalls(i) <= getChainIdFailures(i) + 1
  /\ \A c, d \in CallIds :
       (c < d /\ Started(d) /\ calls[c].inst = calls[d].inst /\ calls[c].wrote)
         => /\ calls[d].queries = 0
            /\ calls[d].domain = calls[c].domain

C2_Witness ==
  \E c, d \in CallIds :
    /\ c < d /\ calls[c].inst = calls[d].inst
    /\ calls[c].wrote /\ calls[c].queries = 1
    /\ Done(d) /\ calls[d].queries = 0

C4_RejectedBeforeAnyWork ==
  \A c \in CallIds : (Started(c) /\ InvalidArgs(c)) =>
    /\ calls[c].queries = 0
    /\ ~calls[c].wrote
    /\ calls[c].signCalls = 0
    /\ ~Done(c)

\* C4 (amended): a createVoucher call whose tokenId is negative, non-integer
\* or missing, or whose minPrice is negative or non-integer, never invokes the
\* signing capability and never returns a result; it fails with the encoder's
\* error only after the domain has been resolved (or with the chain-id
\* query's error), so getChainId may be invoked and the cache written.
C4_InvalidNeverSigned ==
  \A c \in CallIds : (Started(c) /\ InvalidVoucher(c)) =>
    /\ calls[c].signCalls = 0
    /\ calls[c].result = null
    /\ calls[c].pc \in {"awaitChainId", "awaitDomain", "failed"}
    /\ Failed(c) => calls[c].error \in {EncodeError, ChainIdError}
    /\ calls[c].error = EncodeError => calls[c].domain # null

C4_Witness ==
  \E c \in CallIds :
    /\ Failed(c) /\ InvalidVoucher(c) /\ calls[c].error = EncodeError
    /\ calls[c].queries = 1 /\ calls[c].wrote
    /\ _domain[calls[c].inst] # null

C6_SignFailureIsTotal ==
  \A c \in CallIds :
    /\ calls[c].signCalls <= 1
    /\ (Failed(c) /\ calls[c].signCalls = 1) =>
         (calls[c].error = SignError /\ calls[c].result = null)

C6_Witness ==
  \E c \in CallIds :
    /\ Failed(c) /\ calls[c].error = SignError
    /\ calls[c].signCalls = 1 /\ calls[c].digest # null

\* C7 (as stated): every typed-data envelope createVoucher hashes has
\* primaryType "Voucher" and a schema of exactly two types, the four-field
\* EIP712Domain and a type named Voucher with tokenId:uint256,
\* minPrice:uint256, uri:string in that order.
C7_VoucherSchema ==
  \A c \in CallIds : calls[c].typedData # null =>
    /\ calls[c].typedData.primaryType = "Voucher"
    /\ DOMAIN calls[c].typedData.types = {"EIP712Domain", "Voucher"}
    /\ calls[c].typedData.types["Voucher"] =
         << [name |-> "tokenId", type |-> "uint256"],
            [name |-> "minPrice", type |-> "uint256"],
            [name |-> "uri", type |-> "string"] >>

\* C7 (amended): every typed-data envelope createVoucher hashes has
\* primaryType "NFTVoucher" and a schema of exactly two types, the four-field
\* EIP712Domain (name:string, version:string, chainId:uint256,
\* verifyingContract:address) and a type named NFTVoucher with
\* tokenId:uint256, minPrice:uint256, uri:string in that order; the schema is
\* the same in every call on every instance.
C7_NFTVoucherSchema ==
  \A c \in CallIds : calls[c].typedData # null =>
    /\ calls[c].typedData.primaryType = "NFTVoucher"
    /\ DOMAIN calls[c].typedData.types = {"EIP712Domain", "NFTVoucher"}
    /\ calls[c].typedData.types["EIP712Domain"] =
         << [name |-> "name", type |-> "string"],
            [name |-> "version", type |-> "string"],
            [name |-> "chainId", type |-> "uint256"],
            [name |-> "verifyingContract", type |-> "address"] >>
    /\ calls[c].typedData.types["NFTVoucher"] =
         << [name |-> "tokenId", type |-> "uint256"],
            [name |-> "minPrice", type |-> "uint256"],
            [name |-> "uri", type |-> "string"] >>
    /\ encodeType(calls[c].typedData.types, calls[c].typedData.primaryType)
         = "NFTVoucher(uint256 tokenId,uint256 minPrice,string uri)"
    /\ \A d \in CallIds : calls[d].typedData # null =>
         calls[d].typedData.types = calls[c].typedData.types

C7_Witness ==
  \E c, d \in CallIds :
    /\ Done(c) /\ calls[d].typedData # null
    /\ calls[c].inst # calls[d].inst

\* C8: two instances with different contract addresses, the same signer and
\* the same chain id return different digests for identical
\* (tokenId, uri, minPrice).
C8_DomainSeparation ==
  \A c, d \in CallIds :
    ( /\ Done(c) /\ Done(d)
      /\ contractAddress[calls[c].inst] # contractAddress[calls[d].inst]
      /\ signer[calls[c].inst] = signer[calls[d].inst]
      /\ calls[c].domain.chainId = calls[d].domain.chainId
      /\ calls[c].args = calls[d].args )
    => calls[c].result.digest # calls[d].result.digest

C8_Witness ==
  \E c, d \in CallIds :
    /\ Done(c) /\ Done(d)
    /\ contractAddress[calls[c].inst] # contractAddress[calls[d].inst]
    /\ calls[c].domain.chainId = calls[d].domain.chainId
    /\ calls[c].args = calls[d].args

\* C9: createVoucher(tokenId, uri) with minPrice omitted builds a voucher
\* whose minPrice is 0, is not rejected by the encoder for its minPrice, and
\* returns the same voucher and digest as createVoucher(tokenId, uri, 0) on
\* the same instance.
C9_DefaultMinPrice ==
  \A c \in CallIds : (Started(c) /\ calls[c].args.minPrice = undefined) =>
    /\ calls[c].voucher.minPrice = Num(0)
    /\ IsUint256(calls[c].args.tokenId) => calls[c].error # EncodeError
    /\ \A d \in CallIds :
         ( /\ Done(c) /\ Done(d) /\ calls[d].inst = calls[c].inst
           /\ calls[d].args.tokenId = calls[c].args.tokenId
           /\ calls[d].args.uri = calls[c].args.uri
           /\ calls[d].args.minPrice = Num(0) )
         => /\ calls[d].result.voucher = calls[c].result.voucher
            /\ calls[d].result.digest = calls[c].result.digest

C9_Witness ==
  \E c, d \in CallIds :
    /\ Done(c) /\ Done(d) /\ calls[d].inst = calls[c].inst
    /\ calls[c].args.minPrice = undefined
    /\ calls[d].args.minPrice = Num(0)
    /\ calls[d].args.tokenId = calls[c].args.tokenId
    /\ calls[d].args.uri = calls[c].args.uri

\* C10: every successful createVoucher call returns exactly {voucher,
\* signature, digest}: the voucher holds the tokenId, uri and minPrice passed
\* in (0 for an omitted minPrice), the digest is the digest of the envelope
\* built from the instance's domain, its type schema and that voucher, and
\* the signature is what signMessage returned for that digest.
C10_ResultDerived ==
  \A c \in CallIds : Done(c) =>
    LET r == calls[c].result
        i == calls[c].inst
    IN  /\ DOMAIN r = {"voucher", "signature", "digest"}
        /\ r.voucher =
             [ tokenId |-> calls[c].args.tokenId, uri |-> calls[c].args.uri,
               minPrice |-> IF calls[c].args.minPrice = undefined
                            THEN Num(0) ELSE calls[c].args.minPrice ]
        /\ _domain[i] # null
        /\ r.digest = encodeDigest([ domain |-> _domain[i], types |-> types[i],
                                     primaryType |-> "NFTVoucher",
                                     message |-> r.voucher ])
        /\ r.signature = signMessage(signer[i], r.digest)

C10_Witness ==
  \E c \in CallIds :
    /\ Done(c)
    /\ calls[c].args = [ tokenId |-> Num(42), uri |-> "ipfs://test",
                         minPrice |-> Num(1000) ]

\* C11: whenever an instance's domain cache holds a value, that value has
\* name "LazyNFT-Voucher", version "1", verifyingContract equal to the address
\* given to the constructor, and chainId equal to a value that a resolved
\* getChainId query of a call on that instance returned.
C11_CachedDomainShape ==
  \A i \in Instances : _domain[i] # null =>
    /\ DOMAIN _domain[i] = {"name", "version", "verifyingContract", "chainId"}
    /\ _domain[i].name = "LazyNFT-Voucher"
    /\ _domain[i].version = "1"
    /\ _domain[i].verifyingContract = contractAddress[i]
    /\ _domain[i].chainId \in ChainIds
    /\ \E c \in CallIds :
         /\ calls[c].inst = i /\ calls[c].wrote
         /\ calls[c].chainId = _domain[i].chainId

C11_Witness ==
  \E i \in Instances :
    /\ _domain[i] # null
    /\ _domain[i].chainId = Num(5)
    /\ network = Num(1)

\* C12: constructing a LazyMinter performs no network or cryptographic work:
\* as long as no createVoucher call has been made on an instance, its domain
\* cache is empty and neither getChainId nor the signing capability has been
\* invoked for it.
C12_ConstructionIsLazy ==
  \A i \in Instances :
    (\A c \in CallIds : Started(c) => calls[c].inst # i) =>
      /\ _domain[i] = null
      /\ getChainIdCalls(i) = 0
      /\ \A c \in CallIds : calls[c].inst = i => calls[c].signCalls = 0

C12_Witness ==
  \E i \in Instances :
    /\ \A c \in CallIds : Started(c) => calls[c].inst # i
    /\ \E c \in CallIds : Done(c)
    /\ _domain[i] = null

\* C13 (as stated): an instance leaves DomainUnresolved only through a
\* createVoucher call that succeeds, a call that fails leaves it
\* DomainUnresolved: a resolved instance with no call in flight has a call
\* that succeeded.
C13_ResolvedOnlyBySuccess ==
  \A i \in Instances :
    ( /\ _domain[i] # null
      /\ \A c \in CallIds : calls[c].inst = i => ~InFlight(c) )
    => \E c \in CallIds : calls[c].inst = i /\ Done(c)

\* C13 (amended): an instance leaves DomainUnresolved exactly in the step in
\* which the getChainId query of a createVoucher call on it resolves, whether
\* that call later succeeds or fails; the step in which a call fails leaves
\* the lifecycle state as it is; once DomainResolved the instance never
\* returns to DomainUnresolved.
C13_Lifecycle ==
  [][ \A i \in Instances :
        /\ _domain[i] # null => _domain'[i] # null
        /\ (_domain[i] = null /\ _domain'[i] # null) =>
             \E c \in CallIds :
               /\ calls[c].inst = i
               /\ calls[c].pc = "awaitChainId"
               /\ calls'[c].pc = "awaitDomain"
        /\ \A c \in CallIds :
             (calls[c].inst = i /\ ~Failed(c) /\ calls'[c].pc = "failed")
               => (_domain'[i] = null <=> _domain[i] = null) ]_vars

C13_Witness ==
  \E c \in CallIds :
    /\ Failed(c) /\ calls[c].error = SignError
    /\ _domain[calls[c].inst] # null
    /\ \A d \in CallIds : calls[d].inst = calls[c].inst => ~Done(d)

\* C14: once an instance's domain cache holds a value, no later step of any
\* createVoucher call, sequential or concurrent, changes that value, whatever
\* later chain-id queries return: the domain a call stored is still the one
\* cached.
C14_CachedValueNeverChanges ==
  \A c \in CallIds : calls[c].wrote =>
    _domain[calls[c].inst] = calls[c].domain

\* C15: when several createVoucher calls are in flight on one instance
\* before the first domain resolution completes and every chain-id query
\* returns the same chain id, every call uses a domain equal to the cached
\* one, and calls that each issued their own query return identical digests
\* for identical (tokenId, uri, minPrice).
C15_RacingCallsAgree ==
  /\ \A c \in CallIds : calls[c].domain # null =>
       calls[c].domain = _domain[calls[c].inst]
  /\ \A c, d \in CallIds :
       ( /\ Done(c) /\ Done(d) /\ calls[c].inst = calls[d].inst
         /\ calls[c].queries = 1 /\ calls[d].queries = 1
         /\ calls[c].voucher = calls[d].voucher )
       => calls[c].result.digest = calls[d].result.digest

C15_Witness ==
  \E c, d \in CallIds :
    /\ c # d /\ Done(c) /\ Done(d) /\ calls[c].inst = calls[d].inst
    /\ calls[c].wrote /\ calls[d].wrote
    /\ calls[c].args = calls[d].args

\* the order in which a createVoucher call moves between its steps
StepOrder ==
  { << "idle", "awaitChainId" >>, << "idle", "awaitDomain" >>,
    << "awaitChainId", "awaitDomain" >>, << "awaitChainId", "failed" >>,
    << "awaitDomain", "awaitSign" >>, << "awaitDomain", "failed" >>,
    << "awaitSign", "done" >>, << "awaitSign", "failed" >> }

\* C16: within every createVoucher call the steps happen in the order domain
\* resolved (chain-id query completed if the cache was empty) -> digest
\* computed -> signing capability invoked -> result returned; no result is
\* returned before both the domain resolution and the signing have completed.
C16_StepOrder ==
  [][ \A c \in CallIds :
        /\ calls'[c].pc # calls[c].pc =>
             << calls[c].pc, calls'[c].pc >> \in StepOrder
        /\ calls'[c].digest # null =>
             /\ calls'[c].domain # null
             /\ calls'[c].queries = 1 => calls'[c].chainId # null
        /\ calls'[c].signCalls > 0 =>
             /\ calls'[c].digest # null
             /\ calls'[c].signed = calls'[c].digest
        /\ calls'[c].result # null =>
             /\ calls[c].pc \in {"awaitSign", "done"}
             /\ calls'[c].pc = "done"
             /\ calls'[c].signCalls = 1
             /\ calls'[c].domain # null
             /\ calls'[c].result.signature # null ]_vars

C16_Witness ==
  \E c \in CallIds :
    /\ Done(c) /\ calls[c].queries = 1 /\ calls[c].chainId # null
    /\ calls[c].result.signature # null

\* C17: createVoucher changes no instance state other than the domain cache:
\* contractAddress, signer and types are unchanged by every step, and no step
\* of a call that found the domain cached changes the domain cache either.
C17_FrameOfCreateVoucher ==
  [][ /\ contractAddress' = contractAddress
      /\ signer' = signer
      /\ types' = types
      /\ \A c \in CallIds :
           (calls'[c].pc # calls[c].pc /\ calls'[c].queries = 0)
             => _domain' = _domain ]_vars

C17_Witness ==
  \E c \in CallIds :
    /\ Done(c) /\ calls[c].queries = 0
    /\ _domain[calls[c].inst] = calls[c].domain
    /\ types[calls[c].inst] = Types

\* C18: with calls issued one after another, once a chain-id query of an
\* instance has resolved its domain stays cached, also when the call that
\* made the query then fails in signing, no later call on the instance issues
\* a query, and at most one query per instance ever resolves.
C18_NoQueryAfterSuccess ==
  /\ \A i \in Instances : getChainIdSuccesses(i) <= 1
  /\ \A c \in CallIds : (Started(c) /\ calls[c].chainId # null) =>
       /\ _domain[calls[c].inst] # null
       /\ \A d \in CallIds :
            (d > c /\ Started(d) /\ calls[d].inst = calls[c].inst)
              => calls[d].queries = 0

C18_Witness ==
  \E c, d \in CallIds :
    /\ Failed(c) /\ calls[c].error = SignError /\ calls[c].chainId # null
    /\ d > c /\ Started(d) /\ calls[d].inst = calls[c].inst
    /\ calls[d].queries = 0 /\ Done(d)

====
